---- MODULE Spec2Model ----
(***************************************************************************)
(* Model of the "preview then confirm" layer of PostGIS_Yukon_MCP:         *)
(*   - the Vanna training service (src/vanna_server/vanna_service.py):     *)
(*     the session store `training_sessions`, the preview / confirm /     *)
(*     cancel handlers, run by concurrent request threads;                *)
(*   - the execution gate of the execute_sql tool (src/server.py) and the  *)
(*     execute endpoint of the Vanna service with its adapter;            *)
(*   - the nl_to_sql tool (src/tools/text_to_sql.py): the query classifier, *)
(*     the slot extractors and the SQL templates.                         *)
(***************************************************************************)
EXTENDS Integers, Sequences, FiniteSets, TLC

\* ------------------------------------------------------------------ bounds
NThreads == 3
MaxSessions == 2
MaxRequests == 4

Threads == 1..NThreads
\* the values uuid4().hex[:8] can take; the generator does not look at the store
SessionIds == {"training_a", "training_b"}
\* a request body without session_id (data.get returns None) or with ""
NoId == ""
RequestIds == SessionIds \cup {NoId}

\* ddl_list as built by get_ddl_info: one entry per table that has columns
DdlLists == {<<>>, <<"ddl_t1">>, <<"ddl_t1", "ddl_t2">>}
Documentations == {"", "doc"}
Questions == {"", "q", "q2"}
Sqls == {"", "s"}

\* ------------------------------------------------------------- SQL texts
\* A text is a sequence of characters (one-character strings).
LowerChars == <<"a", "b", "c", "d", "e", "f", "g", "h", "i", "j", "k", "l", "m",
                "n", "o", "p", "q", "r", "s", "t", "u", "v", "w", "x", "y", "z">>
UpperChars == <<"A", "B", "C", "D", "E", "F", "G", "H", "I", "J", "K", "L", "M",
                "N", "O", "P", "Q", "R", "S", "T", "U", "V", "W", "X", "Y", "Z">>

\* str.upper, one character
UpperChar(ch) ==
    IF \E i \in DOMAIN LowerChars : LowerChars[i] = ch
    THEN UpperChars[CHOOSE i \in DOMAIN LowerChars : LowerChars[i] = ch]
    ELSE ch

\* str.upper
Upper(s) == [i \in DOMAIN s |-> UpperChar(s[i])]

IsSpace(ch) == ch \in {" ", "\n", "\t", "\r"}

\* str.lstrip and str.rstrip
RECURSIVE LStrip(_)
LStrip(s) ==
    IF s # <<>> /\ IsSpace(Head(s)) THEN LStrip(Tail(s)) ELSE s

RECURSIVE RStrip(_)
RStrip(s) ==
    IF s # <<>> /\ IsSpace(s[Len(s)]) THEN RStrip(SubSeq(s, 1, Len(s) - 1))
    ELSE s

\* str.strip
Strip(s) == RStrip(LStrip(s))

\* str.startswith
StartsWith(s, prefix) ==
    /\ Len(prefix) <= Len(s)
    /\ SubSeq(s, 1, Len(prefix)) = prefix

\* the operator `in` on strings
Contains(s, word) ==
    \E i \in 0..(Len(s) - Len(word)) : \A k \in DOMAIN word : s[i + k] = word[k]

\* str.rstrip(';')
RECURSIVE RStripSemicolons(_)
RStripSemicolons(s) ==
    IF s # <<>> /\ s[Len(s)] = ";"
    THEN RStripSemicolons(SubSeq(s, 1, Len(s) - 1))
    ELSE s

DigitChars == <<"0", "1", "2", "3", "4", "5", "6", "7", "8", "9">>

\* a character of [a-zA-Z0-9_]
IsIdentChar(ch) ==
    \/ \E i \in DOMAIN LowerChars : ch \in {LowerChars[i], UpperChars[i]}
    \/ \E i \in DOMAIN DigitChars : ch = DigitChars[i]
    \/ ch = "_"

\* the f-string rendering of a non-negative int
RECURSIVE Decimal(_)
Decimal(n) ==
    IF n < 10 THEN <<DigitChars[n + 1]>>
    ELSE Decimal(n \div 10) \o <<DigitChars[(n % 10) + 1]>>

kwSELECT == <<"S", "E", "L", "E", "C", "T">>
kwCOMMENT == <<"-", "-">>
kwLIMIT == <<"L", "I", "M", "I", "T">>
kwDROP == <<"D", "R", "O", "P">>
kwDELETE == <<"D", "E", "L", "E", "T", "E">>
kwTRUNCATE == <<"T", "R", "U", "N", "C", "A", "T", "E">>
kwINSERT == <<"I", "N", "S", "E", "R", "T">>
kwUPDATE == <<"U", "P", "D", "A", "T", "E">>
kwALTER == <<"A", "L", "T", "E", "R">>
kwCREATE == <<"C", "R", "E", "A", "T", "E">>

\* execute_sql: dangerous_keywords, in the order of the list
dangerous_keywords ==
    <<kwDROP, kwDELETE, kwTRUNCATE, kwINSERT, kwUPDATE, kwALTER, kwCREATE>>

\* the pieces the checked texts are built from
\* "SELECT 1"
fSelect ==
    <<"S", "E", "L", "E", "C", "T", " ", "1">>
\* " select 2"
fLowerSelect ==
    <<" ", "s", "e", "l", "e", "c", "t", " ", "2">>
\* "-- c\n"
fCommentLine ==
    <<"-", "-", " ", "c", "\n">>
\* ";"
fSemicolon ==
    <<";">>
\* " DROP t"
fDrop ==
    <<" ", "D", "R", "O", "P", " ", "t">>
\* "UPDATE t"
fUpdate ==
    <<"U", "P", "D", "A", "T", "E", " ", "t">>
\* " created_at"
fCreatedAt ==
    <<" ", "c", "r", "e", "a", "t", "e", "d", "_", "a", "t">>
\* "GRANT x"
fGrant ==
    <<"G", "R", "A", "N", "T", " ", "x">>
\* " INTO t"
fInto ==
    <<" ", "I", "N", "T", "O", " ", "t">>
\* " limit 5"
fLimit ==
    <<" ", "l", "i", "m", "i", "t", " ", "5">>

\* " UPDATE DROP": two listed tokens, the later one of the list first
fUpdateThenDrop ==
    <<" ", "U", "P", "D", "A", "T", "E", " ", "D", "R", "O", "P">>
\* " speed_limit": the letters of LIMIT inside an identifier
fSpeedLimit ==
    <<" ", "s", "p", "e", "e", "d", "_", "l", "i", "m", "i", "t">>

Fragments ==
    {fSelect, fLowerSelect, fCommentLine, fSemicolon, fDrop,
     fUpdate, fCreatedAt, fGrant, fInto, fLimit, fUpdateThenDrop, fSpeedLimit}

MaxFrags == 2

RECURSIVE TextsOf(_)
TextsOf(n) ==
    IF n = 0 THEN {<<>>}
    ELSE LET shorter == TextsOf(n - 1) IN
         shorter \cup {t \o f : t \in shorter, f \in Fragments}

SqlTexts == TextsOf(MaxFrags)

\* execute_sql(limit=100)
DefaultLimit == 100
Limits == {0, DefaultLimit}

\* the tables of the modelled database and the geometry columns that
\* geometry_columns may register for them
tRoads ==
    <<"r", "o", "a", "d", "s">>
tParks ==
    <<"p", "a", "r", "k", "s">>
tUpdates ==
    <<"u", "p", "d", "a", "t", "e", "s">>
CatalogTables == {tRoads, tParks, tUpdates}

GeomColumn ==
    <<"g", "e", "o", "m">>
ShapeColumn ==
    <<"s", "h", "a", "p", "e">>
GeomColumns == {GeomColumn, ShapeColumn}
\* no row in geometry_columns
NoColumn == <<>>

\* geometry_columns when the server starts
Catalog0 == [t \in CatalogTables |-> GeomColumn]

VARIABLES
    vn,                 \* global vn: "None" or "obj" (a MyVanna instance)
    objs,               \* heap of TrainingSession objects, by identity
    training_sessions,  \* dict session_id -> TrainingSession (0: no key)
    trained,            \* per session object and staged item: calls vn.train made
    store,              \* the training store: what vn.train has been given
    pc,                 \* position of each request thread
    req,                \* locals of the request a thread is running
    last,               \* the request completed last, with its response
    confirmOK,          \* per session object: confirms answered success
    cancelOK,           \* per session object: cancels answered success
    cancelPending,      \* per session object: cancelled while status pending
    everStaged,         \* ids a preview has stored at some time
    nreq,               \* requests started
    arg,                \* arguments (sql, limit, confirmed) of an execute call
    out,                \* outcome of the last execute call
    adapterInit,        \* VannaMCPAdapter._is_initialized
    nlarg,              \* arguments (query, table_name) of an nl_to_sql call
    nlout,              \* result of the last nl_to_sql call
    catalog             \* geometry_columns of schema public: table -> column

svars == <<vn, objs, training_sessions, trained, store, pc, req, last,
           confirmOK, cancelOK, cancelPending, everStaged, nreq>>

gvars == <<arg, out, adapterInit>>

nvars == <<nlarg, nlout, catalog>>

vars == <<svars, gvars, nvars>>

NoReq == [op |-> "none", sid |-> NoId, session |-> 0, pre |-> "none", i |-> 0,
          calls |-> 0, resp |-> "running"]

NoArg == [sql |-> <<>>, limit |-> DefaultLimit, confirmed |-> FALSE]
NoOut == [path |-> "none", verdict |-> "none", keyword |-> <<>>,
          forwarded |-> FALSE, stmt |-> <<>>, fetches |-> 0,
          dbfail |-> "none"]

NoNlArg == [query |-> <<>>, table_name |-> <<>>]
NoDistance == [found |-> FALSE, value |-> 0]
NoNlOut == [success |-> FALSE, error |-> "none", query_type |-> "none",
            table_name |-> <<>>, sql |-> <<>>, geom_column |-> NoColumn,
            distance |-> NoDistance, db_calls |-> 0, db_failed |-> FALSE]

Init ==
    /\ vn = "None"
    /\ objs = <<>>
    /\ training_sessions = [k \in SessionIds |-> 0]
    /\ trained = <<>>
    /\ store = {}
    /\ pc = [t \in Threads |-> "idle"]
    /\ req = [t \in Threads |-> NoReq]
    /\ last = [NoReq EXCEPT !.resp = "none"]
    /\ confirmOK = <<>>
    /\ cancelOK = <<>>
    /\ cancelPending = <<>>
    /\ everStaged = {}
    /\ nreq = 0
    /\ arg = NoArg
    /\ out = NoOut
    /\ adapterInit = FALSE
    /\ nlarg = NoNlArg
    /\ nlout = NoNlOut
    /\ catalog = Catalog0

\* a thread picks up a new request
CanStart(t) == pc[t] = "idle" /\ nreq < MaxRequests

Reply(t, r, kind) ==
    /\ pc' = [pc EXCEPT ![t] = "idle"]
    /\ req' = [req EXCEPT ![t] = NoReq]
    /\ last' = [r EXCEPT !.i = 0, !.resp = kind]

\* POST /api/vanna/init, init_vanna: the MyVanna constructor may raise (vn is
\* left as it was); otherwise vn is assigned before the connection attempt,
\* whose failure is reported but leaves vn assigned
Initialize(t) ==
    /\ CanStart(t)
    /\ nreq' = nreq + 1
    /\ \/ /\ UNCHANGED vn
          /\ Reply(t, [NoReq EXCEPT !.op = "init"], "Error")
       \/ /\ vn' = "obj"
          /\ \E connected \in BOOLEAN :
                Reply(t, [NoReq EXCEPT !.op = "init"],
                      IF connected THEN "Success" ELSE "Error")
    /\ UNCHANGED <<objs, training_sessions, trained, store, confirmOK, cancelOK,
                   cancelPending, everStaged>>

\* the items a confirm passes to vn.train, in order: each ddl of ddl_list, or
\* the documentation, or the (question, sql) pair
ItemsOf(type, data) ==
    IF type = "ddl" THEN data ELSE <<data>>

\* Stage that hands the payload to the training store at once
StageAndTrain(sid, type, data) ==
    /\ Len(objs) < MaxSessions
    /\ objs' = Append(objs, [session_id |-> sid, training_type |-> type,
                             data |-> data, status |-> "pending"])
    /\ training_sessions' = [training_sessions EXCEPT ![sid] = Len(objs) + 1]
    /\ trained' = Append(trained, [k \in 1..Len(ItemsOf(type, data)) |-> 0])
    /\ store' = store \cup {[kind |-> type, item |-> ItemsOf(type, data)[k]] :
                               k \in 1..Len(ItemsOf(type, data))}
    /\ confirmOK' = Append(confirmOK, 0)
    /\ cancelOK' = Append(cancelOK, 0)
    /\ cancelPending' = Append(cancelPending, FALSE)
    /\ everStaged' = everStaged \cup {sid}

\* TrainingSession.__init__ followed by training_sessions[session_id] = session
Stage(sid, type, data) ==
    /\ Len(objs) < MaxSessions
    /\ objs' = Append(objs, [session_id |-> sid, training_type |-> type,
                             data |-> data, status |-> "pending"])
    /\ training_sessions' = [training_sessions EXCEPT ![sid] = Len(objs) + 1]
    /\ trained' = Append(trained, [k \in 1..Len(ItemsOf(type, data)) |-> 0])
    /\ store' = store
    /\ confirmOK' = Append(confirmOK, 0)
    /\ cancelOK' = Append(cancelOK, 0)
    /\ cancelPending' = Append(cancelPending, FALSE)
    /\ everStaged' = everStaged \cup {sid}

NoStage ==
    UNCHANGED <<objs, training_sessions, trained, store, confirmOK, cancelOK,
                cancelPending, everStaged>>

\* train_ddl_preview: the catalog lookup yields an error text (no spatial
\* table), raises, or yields a ddl_list that is staged under a generated id
TrainDdlPreview(t) ==
    /\ CanStart(t)
    /\ nreq' = nreq + 1
    /\ UNCHANGED vn
    /\ LET r == [NoReq EXCEPT !.op = "preview"] IN
       IF vn = "None"
       THEN NoStage /\ Reply(t, r, "NotInitialized")
       ELSE \/ NoStage /\ Reply(t, r, "NoSpatialTable")
            \/ NoStage /\ Reply(t, r, "Error")
            \/ \E ddl_list \in DdlLists, sid \in SessionIds :
                  /\ Stage(sid, "ddl", ddl_list)
                  /\ Reply(t, [r EXCEPT !.sid = sid,
                                        !.session = Len(objs) + 1], "Success")

\* train_documentation_preview
TrainDocumentationPreview(t) ==
    /\ CanStart(t)
    /\ nreq' = nreq + 1
    /\ UNCHANGED vn
    /\ LET r == [NoReq EXCEPT !.op = "preview"] IN
       \E documentation \in Documentations :
          IF vn = "None"
          THEN NoStage /\ Reply(t, r, "NotInitialized")
          ELSE IF documentation = ""
          THEN NoStage /\ Reply(t, r, "MissingParam")
          ELSE \E sid \in SessionIds :
                  /\ Stage(sid, "documentation", documentation)
                  /\ Reply(t, [r EXCEPT !.sid = sid,
                                        !.session = Len(objs) + 1], "Success")

\* train_sql_preview
TrainSqlPreview(t) ==
    /\ CanStart(t)
    /\ nreq' = nreq + 1
    /\ UNCHANGED vn
    /\ LET r == [NoReq EXCEPT !.op = "preview"] IN
       \E question \in Questions, sql \in Sqls :
          IF vn = "None"
          THEN NoStage /\ Reply(t, r, "NotInitialized")
          ELSE IF question = "" \/ sql = ""
          THEN NoStage /\ Reply(t, r, "MissingParam")
          ELSE \E sid \in SessionIds :
                  /\ Stage(sid, "sql_example", <<question, sql>>)
                  /\ Reply(t, [r EXCEPT !.sid = sid,
                                        !.session = Len(objs) + 1], "Success")

\* confirm_training, up to session = training_sessions.get(session_id)
ConfirmLookup(t) ==
    /\ CanStart(t)
    /\ nreq' = nreq + 1
    /\ UNCHANGED <<vn, objs, training_sessions, trained, store, confirmOK,
                   cancelOK, cancelPending, everStaged>>
    /\ \E session_id \in RequestIds :
          LET r == [NoReq EXCEPT !.op = "confirm", !.sid = session_id] IN
          IF vn = "None" THEN Reply(t, r, "NotInitialized")
          ELSE IF session_id = NoId THEN Reply(t, r, "MissingParam")
          ELSE IF training_sessions[session_id] = 0
          THEN Reply(t, r, "UnknownSession")
          ELSE /\ pc' = [pc EXCEPT ![t] = "confirm_check"]
               /\ req' = [req EXCEPT ![t] =
                            [r EXCEPT !.session = training_sessions[session_id]]]
               /\ UNCHANGED last

\* confirm_training: if session.status == "completed"
ConfirmCheck(t) ==
    /\ pc[t] = "confirm_check"
    /\ UNCHANGED <<vn, objs, training_sessions, trained, store, confirmOK,
                   cancelOK, cancelPending, everStaged, nreq>>
    /\ LET r == [req[t] EXCEPT !.pre = objs[req[t].session].status] IN
       IF objs[req[t].session].status = "completed"
       THEN Reply(t, r, "AlreadyFinalized")
       ELSE /\ pc' = [pc EXCEPT ![t] = "confirm_train"]
            /\ req' = [req EXCEPT ![t] = [r EXCEPT !.i = 1]]
            /\ UNCHANGED last

TrainItems(s) == ItemsOf(s.training_type, s.data)

\* confirm_training: one call vn.train(...); the collaborator may raise
ConfirmTrain(t) ==
    /\ pc[t] = "confirm_train"
    /\ req[t].i <= Len(TrainItems(objs[req[t].session]))
    /\ UNCHANGED <<vn, objs, training_sessions, confirmOK, cancelOK,
                   cancelPending, everStaged, nreq>>
    /\ LET s == objs[req[t].session] IN
       \/ /\ trained' = [trained EXCEPT ![req[t].session][req[t].i] = @ + 1]
          /\ store' = store \cup {[kind |-> s.training_type,
                                    item |-> TrainItems(s)[req[t].i]]}
          /\ req' = [req EXCEPT ![t].i = @ + 1, ![t].calls = @ + 1]
          /\ UNCHANGED <<pc, last>>
       \/ /\ UNCHANGED <<trained, store>>
          /\ Reply(t, req[t], IF s.training_type = "documentation"
                              THEN "TrainFailed" ELSE "Error")

\* ConfirmFinish that answers success after the first call of vn.train
ConfirmFinishAfterFirst(t) ==
    /\ pc[t] = "confirm_train"
    /\ req[t].i > 1
    /\ objs' = [objs EXCEPT ![req[t].session].status = "completed"]
    /\ confirmOK' = [confirmOK EXCEPT ![req[t].session] = @ + 1]
    /\ Reply(t, req[t], "Success")
    /\ UNCHANGED <<vn, training_sessions, trained, store, cancelOK,
                   cancelPending, everStaged, nreq>>

\* confirm_training: session.status = "completed" and the success response
ConfirmFinish(t) ==
    /\ pc[t] = "confirm_train"
    /\ req[t].i > Len(TrainItems(objs[req[t].session]))
    /\ objs' = [objs EXCEPT ![req[t].session].status = "completed"]
    /\ confirmOK' = [confirmOK EXCEPT ![req[t].session] = @ + 1]
    /\ Reply(t, req[t], "Success")
    /\ UNCHANGED <<vn, training_sessions, trained, store, cancelOK,
                   cancelPending, everStaged, nreq>>

\* CancelLookup without the membership test: an unknown id is answered success
CancelLookupNoCheck(t) ==
    /\ CanStart(t)
    /\ nreq' = nreq + 1
    /\ UNCHANGED <<vn, objs, training_sessions, trained, store, confirmOK,
                   cancelOK, cancelPending, everStaged>>
    /\ \E session_id \in RequestIds :
          LET r == [NoReq EXCEPT !.op = "cancel", !.sid = session_id] IN
          IF session_id = NoId THEN Reply(t, r, "MissingParam")
          ELSE IF training_sessions[session_id] = 0
          THEN Reply(t, r, "Success")
          ELSE /\ pc' = [pc EXCEPT ![t] = "cancel_del"]
               /\ req' = [req EXCEPT ![t] = r]
               /\ UNCHANGED last

\* cancel_training, up to the test session_id in training_sessions
CancelLookup(t) ==
    /\ CanStart(t)
    /\ nreq' = nreq + 1
    /\ UNCHANGED <<vn, objs, training_sessions, trained, store, confirmOK,
                   cancelOK, cancelPending, everStaged>>
    /\ \E session_id \in RequestIds :
          LET r == [NoReq EXCEPT !.op = "cancel", !.sid = session_id] IN
          IF session_id = NoId THEN Reply(t, r, "MissingParam")
          ELSE IF training_sessions[session_id] = 0
          THEN Reply(t, r, "UnknownSession")
          ELSE /\ pc' = [pc EXCEPT ![t] = "cancel_del"]
               /\ req' = [req EXCEPT ![t] = r]
               /\ UNCHANGED last

\* cancel_training: del training_sessions[session_id]; KeyError is caught by
\* the handler's except clause
CancelDelete(t) ==
    /\ pc[t] = "cancel_del"
    /\ UNCHANGED <<vn, objs, trained, store, confirmOK, everStaged, nreq>>
    /\ LET o == training_sessions[req[t].sid] IN
       IF o = 0
       THEN /\ Reply(t, req[t], "Error")
            /\ UNCHANGED <<training_sessions, cancelOK, cancelPending>>
       ELSE /\ training_sessions' = [training_sessions EXCEPT ![req[t].sid] = 0]
            /\ cancelOK' = [cancelOK EXCEPT ![o] = @ + 1]
            /\ cancelPending' = [cancelPending EXCEPT
                                   ![o] = @ \/ objs[o].status = "pending"]
            /\ Reply(t, [req[t] EXCEPT !.session = o,
                                       !.pre = objs[o].status], "Success")

Next ==
    /\ UNCHANGED <<gvars, nvars>>
    /\ \E t \in Threads :
        \/ Initialize(t)
        \/ TrainDdlPreview(t)
        \/ TrainDocumentationPreview(t)
        \/ TrainSqlPreview(t)
        \/ ConfirmLookup(t)
        \/ ConfirmCheck(t)
        \/ ConfirmTrain(t)
        \/ ConfirmFinish(t)
        \/ CancelLookup(t)
        \/ CancelDelete(t)

Spec == Init /\ [][Next]_vars

\* ------------------------------------------------------- execution gate
\* FirstKeyword reporting the listed token that occurs earliest in the text
FirstKeywordInText(sql_upper, k) ==
    LET hits == {j \in DOMAIN dangerous_keywords :
                    Contains(sql_upper, dangerous_keywords[j])}
        pos(j) == CHOOSE i \in 0..Len(sql_upper) :
                     /\ SubSeq(sql_upper, i + 1, i + Len(dangerous_keywords[j]))
                           = dangerous_keywords[j]
                     /\ \A h \in 0..(i - 1) :
                           SubSeq(sql_upper, h + 1, h + Len(dangerous_keywords[j]))
                              # dangerous_keywords[j]
    IN IF hits = {} THEN <<>>
       ELSE dangerous_keywords[CHOOSE j \in hits :
                                  \A h \in hits : pos(j) <= pos(h)]

\* execute_sql: the three checks made before execute_generated_sql is called
RECURSIVE FirstKeyword(_, _)
FirstKeyword(sql_upper, k) ==
    IF k > Len(dangerous_keywords) THEN <<>>
    ELSE IF Contains(sql_upper, dangerous_keywords[k]) THEN dangerous_keywords[k]
    ELSE FirstKeyword(sql_upper, k + 1)

\* GateVerdict without the confirmation check
GateVerdictNoConfirm(sql, confirmed) ==
    LET sql_upper == Upper(Strip(sql)) IN
    IF ~StartsWith(sql_upper, kwSELECT) /\ ~StartsWith(sql_upper, kwCOMMENT)
    THEN [verdict |-> "NotASelectStatement", keyword |-> <<>>]
    ELSE IF FirstKeyword(sql_upper, 1) # <<>>
    THEN [verdict |-> "ForbiddenKeyword", keyword |-> FirstKeyword(sql_upper, 1)]
    ELSE [verdict |-> "Accept", keyword |-> <<>>]

\* GateVerdict with the keyword scan placed before the prefix check
GateVerdictDenylistFirst(sql, confirmed) ==
    LET sql_upper == Upper(Strip(sql)) IN
    IF ~confirmed
    THEN [verdict |-> "ConfirmationRequired", keyword |-> <<>>]
    ELSE IF FirstKeyword(sql_upper, 1) # <<>>
    THEN [verdict |-> "ForbiddenKeyword", keyword |-> FirstKeyword(sql_upper, 1)]
    ELSE IF ~StartsWith(sql_upper, kwSELECT) /\ ~StartsWith(sql_upper, kwCOMMENT)
    THEN [verdict |-> "NotASelectStatement", keyword |-> <<>>]
    ELSE [verdict |-> "Accept", keyword |-> <<>>]

GateVerdict(sql, confirmed) ==
    LET sql_upper == Upper(Strip(sql)) IN
    IF ~confirmed
    THEN [verdict |-> "ConfirmationRequired", keyword |-> <<>>]
    ELSE IF ~StartsWith(sql_upper, kwSELECT) /\ ~StartsWith(sql_upper, kwCOMMENT)
    THEN [verdict |-> "NotASelectStatement", keyword |-> <<>>]
    ELSE IF FirstKeyword(sql_upper, 1) # <<>>
    THEN [verdict |-> "ForbiddenKeyword", keyword |-> FirstKeyword(sql_upper, 1)]
    ELSE [verdict |-> "Accept", keyword |-> <<>>]

\* execute_generated_sql: the statement handed to conn.fetch
WithLimit(sql, limit) ==
    IF limit # 0 /\ ~Contains(Upper(sql), kwLIMIT)
    THEN RStripSemicolons(sql) \o <<"\n">> \o kwLIMIT \o <<" ">>
            \o Decimal(limit) \o <<";">>
    ELSE sql

\* execute_generated_sql with the statement sent again after a failure
execute_generated_sql_retry(sql, limit, connects, fetch_ok) ==
    IF ~connects
    THEN [raised |-> TRUE, success |-> FALSE, fetches |-> 0, stmt |-> <<>>]
    ELSE [raised |-> FALSE, success |-> fetch_ok,
          fetches |-> IF fetch_ok THEN 1 ELSE 2,
          stmt |-> WithLimit(sql, limit)]

\* execute_generated_sql: get_db_connection raises (before the try), or the
\* statement is sent with one conn.fetch, whose failure is caught
execute_generated_sql(sql, limit, connects, fetch_ok) ==
    IF ~connects
    THEN [raised |-> TRUE, success |-> FALSE, fetches |-> 0, stmt |-> <<>>]
    ELSE [raised |-> FALSE, success |-> fetch_ok, fetches |-> 1,
          stmt |-> WithLimit(sql, limit)]

\* ExecuteSql that forwards only the statement the last preview returned
ExecuteSqlPreviewedOnly ==
    /\ UNCHANGED <<svars, arg, adapterInit, nvars>>
    /\ LET g == GateVerdict(arg.sql, arg.confirmed) IN
       IF g.verdict # "Accept" \/ ~nlout.success \/ arg.sql # nlout.sql
       THEN out' = [path |-> "tool",
                    verdict |-> IF g.verdict # "Accept" THEN g.verdict
                                ELSE "NotPreviewed",
                    keyword |-> g.keyword, forwarded |-> FALSE, stmt |-> <<>>,
                    fetches |-> 0, dbfail |-> "none"]
       ELSE out' = [path |-> "tool", verdict |-> "Success", keyword |-> <<>>,
                    forwarded |-> TRUE, stmt |-> WithLimit(arg.sql, arg.limit),
                    fetches |-> 1, dbfail |-> "none"]

\* the execute_sql tool; an exception of execute_generated_sql is caught
ExecuteSql ==
    /\ UNCHANGED <<svars, arg, adapterInit, nvars>>
    /\ LET g == GateVerdict(arg.sql, arg.confirmed) IN
       IF g.verdict # "Accept"
       THEN out' = [path |-> "tool", verdict |-> g.verdict,
                    keyword |-> g.keyword, forwarded |-> FALSE, stmt |-> <<>>,
                    fetches |-> 0, dbfail |-> "none"]
       ELSE \E connects \in BOOLEAN, fetch_ok \in BOOLEAN :
               LET r == execute_generated_sql(arg.sql, arg.limit, connects,
                                              fetch_ok)
               IN out' = [path |-> "tool",
                          verdict |-> IF r.success THEN "Success"
                                      ELSE "DbError",
                          keyword |-> <<>>, forwarded |-> r.fetches > 0,
                          stmt |-> r.stmt, fetches |-> r.fetches,
                          dbfail |-> IF r.raised THEN "connect"
                                     ELSE IF r.success THEN "none"
                                     ELSE "fetch"]

\* execute_sql_api: the checks made before vn.run_sql(sql)
ApiVerdict(sql, confirmed) ==
    IF vn = "None" THEN "NotInitialized"
    ELSE IF sql = <<>> THEN "MissingParam"
    ELSE IF ~confirmed THEN "ConfirmationRequired"
    ELSE "Accept"

ApiOutcome(path) ==
    LET v == ApiVerdict(arg.sql, arg.confirmed) IN
    IF v # "Accept"
    THEN out' = [path |-> path, verdict |-> v, keyword |-> <<>>,
                 forwarded |-> FALSE, stmt |-> <<>>, fetches |-> 0,
                 dbfail |-> "none"]
    ELSE \E r \in {"Success", "DbError"} :
            out' = [path |-> path, verdict |-> r, keyword |-> <<>>,
                    forwarded |-> TRUE, stmt |-> arg.sql, fetches |-> 1,
                    dbfail |-> IF r = "DbError" THEN "fetch" ELSE "none"]

\* POST /api/vanna/execute_sql sent to the service directly
ExecuteSqlApi ==
    /\ UNCHANGED <<svars, arg, adapterInit, nvars>>
    /\ ApiOutcome("api")

\* VannaMCPAdapter.execute_sql
AdapterExecuteSql ==
    /\ UNCHANGED <<svars, arg, adapterInit, nvars>>
    /\ IF ~adapterInit
       THEN out' = [path |-> "adapter", verdict |-> "NotInitialized",
                    keyword |-> <<>>, forwarded |-> FALSE, stmt |-> <<>>,
                    fetches |-> 0, dbfail |-> "none"]
       ELSE \/ out' = [path |-> "adapter", verdict |-> "ServiceUnreachable",
                       keyword |-> <<>>, forwarded |-> FALSE, stmt |-> <<>>,
                       fetches |-> 0, dbfail |-> "none"]
            \/ ApiOutcome("adapter")

\* VannaMCPAdapter.initialize: POST /api/vanna/init, which runs init_vanna
AdapterInitialize ==
    /\ UNCHANGED <<objs, training_sessions, trained, store, pc, req, last,
                   confirmOK, cancelOK, cancelPending, everStaged, nreq,
                   arg, out, nvars>>
    /\ \/ UNCHANGED <<vn, adapterInit>>
       \/ /\ vn' = "obj"
          /\ \E connected \in BOOLEAN :
                adapterInit' = (adapterInit \/ connected)

InitGate ==
    /\ vn = "None"
    /\ objs = <<>>
    /\ training_sessions = [k \in SessionIds |-> 0]
    /\ trained = <<>>
    /\ store = {}
    /\ pc = [t \in Threads |-> "idle"]
    /\ req = [t \in Threads |-> NoReq]
    /\ last = [NoReq EXCEPT !.resp = "none"]
    /\ confirmOK = <<>>
    /\ cancelOK = <<>>
    /\ cancelPending = <<>>
    /\ everStaged = {}
    /\ nreq = 0
    /\ arg \in [sql : SqlTexts, limit : Limits, confirmed : BOOLEAN]
    /\ out = NoOut
    /\ adapterInit = FALSE
    /\ nlarg = NoNlArg
    /\ nlout = NoNlOut
    /\ catalog = Catalog0

NextGate ==
    \/ ExecuteSql
    \/ ExecuteSqlApi
    \/ AdapterExecuteSql
    \/ AdapterInitialize

SpecGate == InitGate /\ [][NextGate]_vars

\* ------------------------------------------------- natural-language parser
\* A query is a sequence of characters too; a character outside ASCII is
\* written as its code point ("U+9644").

\* str.lower, one character
LowerChar(ch) ==
    IF \E i \in DOMAIN UpperChars : UpperChars[i] = ch
    THEN LowerChars[CHOOSE i \in DOMAIN UpperChars : UpperChars[i] = ch]
    ELSE ch

\* str.lower
Lower(s) == [i \in DOMAIN s |-> LowerChar(s[i])]

\* the literal word starts at offset i of s
MatchAt(s, i, word) ==
    /\ i + Len(word) <= Len(s)
    /\ \A k \in DOMAIN word : s[i + k] = word[k]

\* re.search of  a.+?b : a, then one or more characters other than a
\* newline, then b
SearchGap(s, a, b) ==
    \E i \in 0..Len(s) :
       /\ MatchAt(s, i, a)
       /\ \E j \in (i + Len(a) + 1)..Len(s) :
             /\ MatchAt(s, j, b)
             /\ \A k \in (i + Len(a) + 1)..j : s[k] # "\n"

\* a pattern is kept as the set of its alternatives; an alternative is a
\* literal <<a>> or a pair <<a, b>> standing for a.+?b
Alt(words) == {<<w>> : w \in words}
Gap(firsts, seconds) == {<<a, b>> : a \in firsts, b \in seconds}

\* re.search(pattern, s)
Search(pattern, s) ==
    \E c \in pattern :
       IF Len(c) = 1 THEN \E i \in 0..Len(s) : MatchAt(s, i, c[1])
       ELSE SearchGap(s, c[1], c[2])
\* NLQueryParser.QUERY_PATTERNS, in the order of the dict
QUERY_PATTERNS ==
    <<
      \* nearby: (fu jin | zhou wei | zhou bian | ju li .+? yi nei) and (find|search).+?(near|around|within)
      [type |-> "nearby",
       patterns |-> <<
            Alt({<<"U+9644", "U+8FD1">>,
                 <<"U+5468", "U+56F4">>,
                 <<"U+5468", "U+8FB9">>})
            \cup Gap({<<"U+8DDD", "U+79BB">>},
                {<<"U+4EE5", "U+5185">>}),
            Gap({<<"f", "i", "n", "d">>,
                 <<"s", "e", "a", "r", "c", "h">>},
                {<<"n", "e", "a", "r">>,
                 <<"a", "r", "o", "u", "n", "d">>,
                 <<"w", "i", "t", "h", "i", "n">>}) >>],
      \* buffer: (huan chong qu | huan chong | buffer) and create.+?buffer
      [type |-> "buffer",
       patterns |-> <<
            Alt({<<"U+7F13", "U+51B2", "U+533A">>,
                 <<"U+7F13", "U+51B2">>,
                 <<"b", "u", "f", "f", "e", "r">>}),
            Gap({<<"c", "r", "e", "a", "t", "e">>},
                {<<"b", "u", "f", "f", "e", "r">>}) >>],
      \* intersection: (xiang jiao | jiao ji | chong die) and (intersect|overlap)
      [type |-> "intersection",
       patterns |-> <<
            Alt({<<"U+76F8", "U+4EA4">>,
                 <<"U+4EA4", "U+96C6">>,
                 <<"U+91CD", "U+53E0">>}),
            Alt({<<"i", "n", "t", "e", "r", "s", "e", "c", "t">>,
                 <<"o", "v", "e", "r", "l", "a", "p">>}) >>],
      \* within: (zai .+? nei | bao han zai) and (within|inside)
      [type |-> "within",
       patterns |-> <<
            Alt({<<"U+5305", "U+542B", "U+5728">>})
            \cup Gap({<<"U+5728">>},
                {<<"U+5185">>}),
            Alt({<<"w", "i", "t", "h", "i", "n">>,
                 <<"i", "n", "s", "i", "d", "e">>}) >>],
      \* area: (mian ji | da xiao) and (area|size)
      [type |-> "area",
       patterns |-> <<
            Alt({<<"U+9762", "U+79EF">>,
                 <<"U+5927", "U+5C0F">>}),
            Alt({<<"a", "r", "e", "a">>,
                 <<"s", "i", "z", "e">>}) >>],
      \* distance: (ju li | xiang ju) and (distance|how far)
      [type |-> "distance",
       patterns |-> <<
            Alt({<<"U+8DDD", "U+79BB">>,
                 <<"U+76F8", "U+8DDD">>}),
            Alt({<<"d", "i", "s", "t", "a", "n", "c", "e">>,
                 <<"h", "o", "w", " ", "f", "a", "r">>}) >>],
      \* count: (shu liang | ge shu | you duo shao) and (count|how many)
      [type |-> "count",
       patterns |-> <<
            Alt({<<"U+6570", "U+91CF">>,
                 <<"U+4E2A", "U+6570">>,
                 <<"U+6709", "U+591A", "U+5C11">>}),
            Alt({<<"c", "o", "u", "n", "t">>,
                 <<"h", "o", "w", " ", "m", "a", "n", "y">>}) >>]
    >>

\* the query matches one of the patterns of the k-th entry
PatternsMatch(query_lower, k) ==
    \E p \in DOMAIN QUERY_PATTERNS[k].patterns :
       Search(QUERY_PATTERNS[k].patterns[p], query_lower)

\* DetectFrom that lets the last matching entry win
DetectFromLast(query_lower, k) ==
    LET hits == {h \in DOMAIN QUERY_PATTERNS : PatternsMatch(query_lower, h)} IN
    IF hits = {} THEN "None"
    ELSE QUERY_PATTERNS[CHOOSE h \in hits : \A j \in hits : j <= h].type

\* the loop of detect_query_type, from the k-th entry on
RECURSIVE DetectFrom(_, _)
DetectFrom(query_lower, k) ==
    IF k > Len(QUERY_PATTERNS) THEN "None"
    ELSE IF PatternsMatch(query_lower, k) THEN QUERY_PATTERNS[k].type
    ELSE DetectFrom(query_lower, k + 1)

\* NLQueryParser.detect_query_type
detect_query_type(query) == DetectFrom(Lower(query), 1)

IsDigit(ch) == \E i \in DOMAIN DigitChars : ch = DigitChars[i]

\* \d* and \s* at offset i: the length of the run
RECURSIVE DigitRun(_, _)
DigitRun(s, i) ==
    IF i < Len(s) /\ IsDigit(s[i + 1]) THEN 1 + DigitRun(s, i + 1) ELSE 0

RECURSIVE SpaceRun(_, _)
SpaceRun(s, i) ==
    IF i < Len(s) /\ IsSpace(s[i + 1]) THEN 1 + SpaceRun(s, i + 1) ELSE 0

\* int(text) for a text of digits
RECURSIVE ParseNat(_)
ParseNat(digits) ==
    IF digits = <<>> THEN 0
    ELSE ParseNat(SubSeq(digits, 1, Len(digits) - 1)) * 10
            + ((CHOOSE i \in DOMAIN DigitChars :
                   DigitChars[i] = digits[Len(digits)]) - 1)

\* float(text) for digits with an optional fraction. A float is kept as its
\* exact number of thousandths (the texts checked have at most three
\* fraction digits).
FloatOf(int_digits, frac_digits) ==
    ParseNat(int_digits) * 1000
       + ParseNat(SubSeq(frac_digits \o <<"0", "0", "0">>, 1, 3))

\* the f-string rendering of a float: 500.0, 120.15
FloatStr(v) ==
    LET f == v % 1000 IN
    Decimal(v \div 1000) \o <<".">> \o
       (IF f % 100 = 0 THEN Decimal(f \div 100)
        ELSE IF f % 10 = 0
        THEN <<DigitChars[(f \div 100) + 1], DigitChars[((f \div 10) % 10) + 1]>>
        ELSE <<DigitChars[(f \div 100) + 1], DigitChars[((f \div 10) % 10) + 1],
               DigitChars[(f % 10) + 1]>>)

\* NUMBER_PATTERN: the alternatives of the unit group, in order
\* (mi | gong li | qian mi | m | km | kilometer | meter)
NUMBER_UNITS ==
    <<<<"U+7C73">>,
      <<"U+516C", "U+91CC">>,
      <<"U+5343", "U+7C73">>,
      <<"m">>,
      <<"k", "m">>,
      <<"k", "i", "l", "o", "m", "e", "t", "e", "r">>,
      <<"m", "e", "t", "e", "r">>>>

\* extract_distance: the units multiplied by 1000
KilometerUnits ==
    {<<"U+516C", "U+91CC">>,
     <<"U+5343", "U+7C73">>,
     <<"k", "m">>,
     <<"k", "i", "l", "o", "m", "e", "t", "e", "r">>}

\* the first alternative of the unit group that matches at offset i (0: none)
RECURSIVE FirstUnit(_, _, _)
FirstUnit(s, i, k) ==
    IF k > Len(NUMBER_UNITS) THEN 0
    ELSE IF MatchAt(s, i, NUMBER_UNITS[k]) THEN k
    ELSE FirstUnit(s, i, k + 1)

\* NUMBER_PATTERN  (\d+(?:\.\d+)?)\s*(unit)  tried at offset i
NumberMatchAt(s, i) ==
    LET n == DigitRun(s, i)
        f == IF n >= 1 /\ i + n < Len(s) /\ s[i + n + 1] = "."
             THEN DigitRun(s, i + n + 1) ELSE 0
        e == IF f >= 1 THEN i + n + 1 + f ELSE i + n
        k == FirstUnit(s, e + SpaceRun(s, e), 1)
    IN [ok |-> n >= 1 /\ k # 0,
        value |-> FloatOf(SubSeq(s, i + 1, i + n),
                          IF f >= 1 THEN SubSeq(s, i + n + 2, i + n + 1 + f)
                          ELSE <<>>),
        unit |-> IF k = 0 THEN <<>> ELSE NUMBER_UNITS[k]]

\* Optional[float]: None, or a value
NoFloat == [found |-> FALSE, value |-> 0]

\* re.search(NUMBER_PATTERN, s): the leftmost offset, from i on, at which the
\* pattern matches (Len(s): none)
RECURSIVE NumberSearch(_, _)
NumberSearch(s, i) ==
    IF i >= Len(s) THEN Len(s)
    ELSE IF IsDigit(s[i + 1]) /\ NumberMatchAt(s, i).ok THEN i
    ELSE NumberSearch(s, i + 1)

\* NLQueryParser.extract_distance
extract_distance(query) ==
    LET at == NumberSearch(query, 0) IN
    IF at = Len(query) THEN NoFloat
    ELSE LET m == NumberMatchAt(query, at)
         IN [found |-> TRUE,
             value |-> IF m.unit \in KilometerUnits THEN m.value * 1000
                       ELSE m.value]

\* COORD_PATTERN  (\d+\.?\d*)[,<fullwidth comma>]\s*(\d+\.?\d*)  at offset i
CoordMatchAt(s, i) ==
    LET n1 == DigitRun(s, i)
        d1 == IF n1 >= 1 /\ i + n1 < Len(s) /\ s[i + n1 + 1] = "." THEN 1 ELSE 0
        f1 == DigitRun(s, i + n1 + d1)
        c == i + n1 + d1 + f1
        comma == n1 >= 1 /\ c < Len(s) /\ s[c + 1] \in {",", "U+FF0C"}
        b == c + 1 + SpaceRun(s, c + 1)
        n2 == DigitRun(s, b)
        d2 == IF n2 >= 1 /\ b + n2 < Len(s) /\ s[b + n2 + 1] = "." THEN 1 ELSE 0
        f2 == DigitRun(s, b + n2 + d2)
    IN [ok |-> comma /\ n2 >= 1,
        lon |-> FloatOf(SubSeq(s, i + 1, i + n1),
                        SubSeq(s, i + n1 + d1 + 1, i + n1 + d1 + f1)),
        lat |-> FloatOf(SubSeq(s, b + 1, b + n2),
                        SubSeq(s, b + n2 + d2 + 1, b + n2 + d2 + f2))]

\* Optional[Tuple[float, float]]
NoCoords == [found |-> FALSE, lon |-> 0, lat |-> 0]

\* re.search(COORD_PATTERN, s): the leftmost offset, from i on, at which the
\* pattern matches (Len(s): none)
RECURSIVE CoordSearch(_, _)
CoordSearch(s, i) ==
    IF i >= Len(s) THEN Len(s)
    ELSE IF IsDigit(s[i + 1]) /\ CoordMatchAt(s, i).ok THEN i
    ELSE CoordSearch(s, i + 1)

\* NLQueryParser.extract_coordinates
extract_coordinates(query) ==
    LET at == CoordSearch(query, 0) IN
    IF at = Len(query) THEN NoCoords
    ELSE LET m == CoordMatchAt(query, at)
         IN [found |-> TRUE, lon |-> m.lon, lat |-> m.lat]

\* the run [:\s]* and the run [a-zA-Z0-9_]* at offset i
RECURSIVE SeparatorRun(_, _)
SeparatorRun(s, i) ==
    IF i < Len(s) /\ (IsSpace(s[i + 1]) \/ s[i + 1] = ":")
    THEN 1 + SeparatorRun(s, i + 1) ELSE 0

RECURSIVE IdentRun(_, _)
IdentRun(s, i) ==
    IF i < Len(s) /\ IsIdentChar(s[i + 1]) THEN 1 + IdentRun(s, i + 1) ELSE 0

\* TABLE_PATTERN  (<biao>|table)\s*[:\s]*([a-zA-Z_][a-zA-Z0-9_]*)  with
\* re.IGNORECASE, tried at offset i
TableMatchAt(s, i) ==
    LET w == IF MatchAt(s, i, <<"U+8868">>) THEN 1
             ELSE IF /\ i + 5 <= Len(s)
                     /\ Lower(SubSeq(s, i + 1, i + 5)) = <<"t", "a", "b", "l", "e">>
             THEN 5
             ELSE 0
        b == i + w + SeparatorRun(s, i + w)
        n == IdentRun(s, b)
    IN [ok |-> w # 0 /\ n >= 1 /\ ~IsDigit(s[b + 1]),
        name |-> SubSeq(s, b + 1, b + n)]

\* NLQueryParser.extract_table_name: re.search scans from the left; group 2
\* of the first match, or None (the empty text)
RECURSIVE TableSearch(_, _)
TableSearch(s, i) ==
    IF i >= Len(s) THEN <<>>
    ELSE IF TableMatchAt(s, i).ok THEN TableMatchAt(s, i).name
    ELSE TableSearch(s, i + 1)

extract_table_name(query) == TableSearch(query, 0)

\* generate_nearby_query: point_wkt = f"POINT({longitude} {latitude})"
point_wkt(longitude, latitude) ==
    <<"P", "O", "I", "N", "T", "(">> \o FloatStr(longitude) \o <<" ">>
       \o FloatStr(latitude) \o <<")">>

\* SQLGenerator.generate_nearby_query: the f-string, stripped
generate_nearby_query(table_name, geom_column, longitude, latitude, radius, limit, schema) ==
    Strip(
        <<"\n", "-", "-", " ", "U+67E5", "U+8BE2", "U+5750", "U+6807", "(">>
        \o FloatStr(longitude)
        \o <<",", " ">>
        \o FloatStr(latitude)
        \o <<")", "U+5468", "U+56F4">>
        \o FloatStr(radius)
        \o <<"U+7C73", "U+5185", "U+7684", "U+8981", "U+7D20", "\n", "S", "E",
          "L", "E", "C", "T", " ", "\n", " ", " ", " ", " ", "*", ",", "\n",
          " ", " ", " ", " ", "S", "T", "_", "D", "i", "s", "t", "a", "n",
          "c", "e", "(", "\n", " ", " ", " ", " ", " ", " ", " ", " ", "S",
          "T", "_", "T", "r", "a", "n", "s", "f", "o", "r", "m", "(">>
        \o geom_column
        \o <<",", " ", "4", "3", "2", "6", ")", ":", ":", "g", "e", "o", "g",
          "r", "a", "p", "h", "y", ",", "\n", " ", " ", " ", " ", " ", " ",
          " ", " ", "S", "T", "_", "G", "e", "o", "g", "F", "r", "o", "m",
          "T", "e", "x", "t", "(", "'", "S", "R", "I", "D", "=", "4", "3",
          "2", "6", ";">>
        \o point_wkt(longitude, latitude)
        \o <<"'", ")", "\n", " ", " ", " ", " ", ")", " ", "a", "s", " ", "d",
          "i", "s", "t", "a", "n", "c", "e", "_", "m", "e", "t", "e", "r",
          "s", "\n", "F", "R", "O", "M", " ">>
        \o schema
        \o <<".">>
        \o table_name
        \o <<"\n", "W", "H", "E", "R", "E", " ", "S", "T", "_", "D", "W", "i",
          "t", "h", "i", "n", "(", "\n", " ", " ", " ", " ", "S", "T", "_",
          "T", "r", "a", "n", "s", "f", "o", "r", "m", "(">>
        \o geom_column
        \o <<",", " ", "4", "3", "2", "6", ")", ":", ":", "g", "e", "o", "g",
          "r", "a", "p", "h", "y", ",", "\n", " ", " ", " ", " ", "S", "T",
          "_", "G", "e", "o", "g", "F", "r", "o", "m", "T", "e", "x", "t",
          "(", "'", "S", "R", "I", "D", "=", "4", "3", "2", "6", ";">>
        \o point_wkt(longitude, latitude)
        \o <<"'", ")", ",", "\n", " ", " ", " ", " ">>
        \o FloatStr(radius)
        \o <<"\n", ")", "\n", "O", "R", "D", "E", "R", " ", "B", "Y", " ", "d",
          "i", "s", "t", "a", "n", "c", "e", "_", "m", "e", "t", "e", "r",
          "s", "\n", "L", "I", "M", "I", "T", " ">>
        \o Decimal(limit)
        \o <<";", "\n">>)

\* SQLGenerator.generate_buffer_query, called without where_clause (where is
\* the empty text): the f-string, stripped
generate_buffer_query(table_name, geom_column, distance, schema) ==
    Strip(
        <<"\n", "-", "-", " ", "U+521B", "U+5EFA">>
        \o FloatStr(distance)
        \o <<"U+7C73", "U+7F13", "U+51B2", "U+533A", "\n", "S", "E", "L", "E",
          "C", "T", " ", "\n", " ", " ", " ", " ", "*", ",", "\n", " ", " ",
          " ", " ", "S", "T", "_", "A", "s", "T", "e", "x", "t", "(", "\n",
          " ", " ", " ", " ", " ", " ", " ", " ", "S", "T", "_", "B", "u",
          "f", "f", "e", "r", "(", "\n", " ", " ", " ", " ", " ", " ", " ",
          " ", " ", " ", " ", " ", "S", "T", "_", "T", "r", "a", "n", "s",
          "f", "o", "r", "m", "(">>
        \o geom_column
        \o <<",", " ", "3", "8", "5", "7", ")", ",", "\n", " ", " ", " ", " ",
          " ", " ", " ", " ", " ", " ", " ", " ">>
        \o FloatStr(distance)
        \o <<"\n", " ", " ", " ", " ", " ", " ", " ", " ", ")", "\n", " ", " ",
          " ", " ", ")", " ", "a", "s", " ", "b", "u", "f", "f", "e", "r",
          "_", "g", "e", "o", "m", ",", "\n", " ", " ", " ", " ", "S", "T",
          "_", "A", "r", "e", "a", "(", "\n", " ", " ", " ", " ", " ", " ",
          " ", " ", "S", "T", "_", "B", "u", "f", "f", "e", "r", "(", "\n",
          " ", " ", " ", " ", " ", " ", " ", " ", " ", " ", " ", " ", "S",
          "T", "_", "T", "r", "a", "n", "s", "f", "o", "r", "m", "(">>
        \o geom_column
        \o <<",", " ", "3", "8", "5", "7", ")", ",", "\n", " ", " ", " ", " ",
          " ", " ", " ", " ", " ", " ", " ", " ">>
        \o FloatStr(distance)
        \o <<"\n", " ", " ", " ", " ", " ", " ", " ", " ", ")", "\n", " ", " ",
          " ", " ", ")", " ", "a", "s", " ", "b", "u", "f", "f", "e", "r",
          "_", "a", "r", "e", "a", "_", "s", "q", "m", "\n", "F", "R", "O",
          "M", " ">>
        \o schema
        \o <<".">>
        \o table_name
        \o <<"\n">>
        \o <<>>
        \o <<";", "\n">>)

\* SQLGenerator.generate_area_query, called without where_clause
generate_area_query(table_name, geom_column, schema) ==
    Strip(
        <<"\n", "-", "-", " ", "U+8BA1", "U+7B97", "U+51E0", "U+4F55",
          "U+9762", "U+79EF", "\n", "S", "E", "L", "E", "C", "T", " ", "\n",
          " ", " ", " ", " ", "*", ",", "\n", " ", " ", " ", " ", "S", "T",
          "_", "A", "r", "e", "a", "(", "S", "T", "_", "T", "r", "a", "n",
          "s", "f", "o", "r", "m", "(">>
        \o geom_column
        \o <<",", " ", "3", "8", "5", "7", ")", ")", " ", "a", "s", " ", "a",
          "r", "e", "a", "_", "s", "q", "m", ",", "\n", " ", " ", " ", " ",
          "S", "T", "_", "A", "r", "e", "a", "(", "S", "T", "_", "T", "r",
          "a", "n", "s", "f", "o", "r", "m", "(">>
        \o geom_column
        \o <<",", " ", "3", "8", "5", "7", ")", ")", " ", "/", " ", "1", "0",
          "0", "0", "0", "0", "0", ".", "0", " ", "a", "s", " ", "a", "r",
          "e", "a", "_", "s", "q", "k", "m", "\n", "F", "R", "O", "M", " ">>
        \o schema
        \o <<".">>
        \o table_name
        \o <<"\n">>
        \o <<>>
        \o <<"\n", "O", "R", "D", "E", "R", " ", "B", "Y", " ", "a", "r", "e",
          "a", "_", "s", "q", "m", " ", "D", "E", "S", "C", ";", "\n">>)

\* SQLGenerator.generate_count_query, called without where_clause
generate_count_query(table_name, schema) ==
    Strip(
        <<"\n", "-", "-", " ", "U+7EDF", "U+8BA1", "U+8981", "U+7D20",
          "U+6570", "U+91CF", "\n", "S", "E", "L", "E", "C", "T", " ", "C",
          "O", "U", "N", "T", "(", "*", ")", " ", "a", "s", " ", "f", "e",
          "a", "t", "u", "r", "e", "_", "c", "o", "u", "n", "t", "\n", "F",
          "R", "O", "M", " ">>
        \o schema
        \o <<".">>
        \o table_name
        \o <<"\n">>
        \o <<>>
        \o <<";", "\n">>)

\* the phrases the checked queries are built from
\* "biao:roads " (table marker and name)
pTable ==
    <<"U+8868", ":", "r", "o", "a", "d", "s", " ">>
\* "120.15,30.25 "
pCoords ==
    <<"1", "2", "0", ".", "1", "5", ",", "3", "0", ".", "2", "5", " ">>
\* "fu jin 500 mi" (nearby, 500 metres)
pNearby ==
    <<"U+9644", "U+8FD1", "5", "0", "0", "U+7C73">>
\* "fu jin 0 mi" (nearby, 0 metres)
pNearbyZero ==
    <<"U+9644", "U+8FD1", "0", "U+7C73">>
\* "zhou wei" (around)
pNearbyOnly ==
    <<"U+5468", "U+56F4">>
\* "within "
pWithin ==
    <<"w", "i", "t", "h", "i", "n", " ">>
\* "500 meters"
pMeters ==
    <<"5", "0", "0", " ", "m", "e", "t", "e", "r", "s">>
\* "find "
pFind ==
    <<"f", "i", "n", "d", " ">>
\* "buffer "
pBuffer ==
    <<"b", "u", "f", "f", "e", "r", " ">>
\* "area "
pArea ==
    <<"a", "r", "e", "a", " ">>
\* "count "
pCount ==
    <<"c", "o", "u", "n", "t", " ">>
\* "overlap "
pOverlap ==
    <<"o", "v", "e", "r", "l", "a", "p", " ">>
\* "2km"
pKm ==
    <<"2", "k", "m">>
\* "5 miles"
pMiles ==
    <<"5", " ", "m", "i", "l", "e", "s">>

NlPhrases ==
    {pTable, pCoords, pNearby, pNearbyZero, pNearbyOnly, pWithin, pMeters,
     pFind, pBuffer, pArea, pCount, pKm, pOverlap, pMiles}

MaxPhrases == 2

RECURSIVE QueriesOf(_)
QueriesOf(n) ==
    IF n = 0 THEN {<<>>}
    ELSE LET shorter == QueriesOf(n - 1) IN
         shorter \cup {q \o p : q \in shorter, p \in NlPhrases}

NlQueries == QueriesOf(MaxPhrases)

\* nl_to_sql(table_name=None) or a table name
TableArgs == {<<>>, tParks}

\* nl_to_sql(schema="public")
Public ==
    <<"p", "u", "b", "l", "i", "c">>

\* a variant of get_table_info that answers from the rows read at start
get_table_info_cached(table_name, schema, connects) ==
    IF ~connects THEN [status |-> "DbError", geom_column |-> NoColumn]
    ELSE IF /\ schema = Public
            /\ table_name \in DOMAIN Catalog0
            /\ Catalog0[table_name] # NoColumn
    THEN [status |-> "Row", geom_column |-> Catalog0[table_name]]
    ELSE [status |-> "NoRow", geom_column |-> NoColumn]

\* get_table_info: a new connection, then fetchrow on geometry_columns
\* returns the row of (schema, table_name) or no row (ValueError); the
\* connection or a query may fail
get_table_info(table_name, schema, connects) ==
    IF ~connects THEN [status |-> "DbError", geom_column |-> NoColumn]
    ELSE IF /\ schema = Public
            /\ table_name \in DOMAIN catalog
            /\ catalog[table_name] # NoColumn
    THEN [status |-> "Row", geom_column |-> catalog[table_name]]
    ELSE [status |-> "NoRow", geom_column |-> NoColumn]

\* generate_nearby_query(limit=100)
NearbyLimit == 100

\* final_table with the argument taken before the name found in the text
FinalTableArgFirst(extracted_table, table_name) ==
    IF table_name # <<>> THEN table_name ELSE extracted_table

\* final_table = extracted_table or table_name
FinalTable(extracted_table, table_name) ==
    IF extracted_table # <<>> THEN extracted_table ELSE table_name

\* parse_nl_query; connects: whether the database answers this call
parse_nl_query(query, table_name, schema, connects) ==
    LET query_type == detect_query_type(query)
        extracted_table == extract_table_name(query)
        final_table == FinalTable(extracted_table, table_name)
        coords == extract_coordinates(query)
        distance == extract_distance(query)
        table_info == get_table_info(final_table, schema, connects)
        geom_column == table_info.geom_column
        Early(e) == [success |-> FALSE, error |-> e, query_type |-> query_type,
                     table_name |-> final_table, sql |-> <<>>,
                     geom_column |-> NoColumn, distance |-> NoDistance,
                     db_calls |-> 0, db_failed |-> FALSE]
        Fail(e) == [Early(e) EXCEPT !.db_calls = 1, !.db_failed = ~connects]
        Ok(sql, params) ==
            [success |-> TRUE, error |-> "none",
             query_type |-> query_type, table_name |-> final_table,
             sql |-> sql, geom_column |-> geom_column, distance |-> params,
             db_calls |-> 1, db_failed |-> FALSE]
    IN IF query_type = "None" THEN Early("UnknownType")
       ELSE IF final_table = <<>> THEN Early("MissingTable")
       ELSE IF table_info.status = "DbError" THEN Fail("ParseFailed")
       ELSE IF table_info.status = "NoRow" THEN Fail("TableNotFound")
       ELSE IF query_type = "nearby"
       THEN IF ~coords.found THEN Fail("MissingCoordinates")
            \* `if not distance`: None and 0.0 are both false
            ELSE IF ~distance.found \/ distance.value = 0
            THEN Fail("MissingDistance")
            ELSE Ok(generate_nearby_query(final_table, geom_column, coords.lon,
                                          coords.lat, distance.value,
                                          NearbyLimit, schema), distance)
       ELSE IF query_type = "buffer"
       THEN IF ~distance.found \/ distance.value = 0
            THEN Fail("MissingDistance")
            ELSE Ok(generate_buffer_query(final_table, geom_column,
                                          distance.value, schema), distance)
       ELSE IF query_type = "area"
       THEN Ok(generate_area_query(final_table, geom_column, schema),
               NoDistance)
       ELSE IF query_type = "count"
       THEN Ok(generate_count_query(final_table, schema), NoDistance)
       ELSE Fail("NotImplemented")

\* the nl_to_sql tool: the result of parse_nl_query is passed on
NlToSql ==
    /\ UNCHANGED <<svars, gvars, nlarg, catalog>>
    /\ \E connects \in BOOLEAN :
          nlout' = parse_nl_query(nlarg.query, nlarg.table_name, Public,
                                  connects)

InitNL ==
    /\ vn = "None"
    /\ objs = <<>>
    /\ training_sessions = [k \in SessionIds |-> 0]
    /\ trained = <<>>
    /\ store = {}
    /\ pc = [t \in Threads |-> "idle"]
    /\ req = [t \in Threads |-> NoReq]
    /\ last = [NoReq EXCEPT !.resp = "none"]
    /\ confirmOK = <<>>
    /\ cancelOK = <<>>
    /\ cancelPending = <<>>
    /\ everStaged = {}
    /\ nreq = 0
    /\ arg = NoArg
    /\ out = NoOut
    /\ adapterInit = FALSE
    /\ nlarg \in [query : NlQueries, table_name : TableArgs]
    /\ nlout = NoNlOut
    /\ catalog = Catalog0

NextNL == NlToSql

SpecNL == InitNL /\ [][NextNL]_vars

\* the tables whose registration changes in the checked runs
ChangingTables == {tParks, tUpdates}

\* the database's geometry_columns changes between calls: a geometry column
\* is registered, renamed or dropped
CatalogChange ==
    /\ UNCHANGED <<svars, gvars, nlarg, nlout>>
    /\ \E t \in ChangingTables, c \in GeomColumns \cup {NoColumn} :
          /\ catalog[t] # c
          /\ catalog' = [catalog EXCEPT ![t] = c]

\* the caller passes the generated_sql of the preview to execute_sql with
\* confirmed=True
SubmitGenerated ==
    /\ nlout.success
    /\ arg' = [sql |-> nlout.sql, limit |-> DefaultLimit, confirmed |-> TRUE]
    /\ UNCHANGED <<svars, out, adapterInit, nvars>>

\* the queries of the runs in which the catalog changes
CatalogQueries ==
    {<<>>, pArea, pCount, pWithin, pTable \o pArea, pBuffer \o pMeters}

\* nl_to_sql(table_name=...) in those runs
CatalogTableArgs == {<<>>, tParks, tUpdates}

InitCatalog ==
    /\ vn = "None"
    /\ objs = <<>>
    /\ training_sessions = [k \in SessionIds |-> 0]
    /\ trained = <<>>
    /\ store = {}
    /\ pc = [t \in Threads |-> "idle"]
    /\ req = [t \in Threads |-> NoReq]
    /\ last = [NoReq EXCEPT !.resp = "none"]
    /\ confirmOK = <<>>
    /\ cancelOK = <<>>
    /\ cancelPending = <<>>
    /\ everStaged = {}
    /\ nreq = 0
    /\ arg = NoArg
    /\ out = NoOut
    /\ adapterInit = FALSE
    /\ nlarg \in [query : CatalogQueries, table_name : CatalogTableArgs]
    /\ nlout = NoNlOut
    /\ catalog = Catalog0

NextCatalog ==
    \/ NlToSql
    \/ CatalogChange
    \/ SubmitGenerated
    \/ ExecuteSql

SpecCatalog == InitCatalog /\ [][NextCatalog]_vars

\* ------------------------------------------------------------- properties
Sessions == 1..Len(objs)

\* C1: the staged training effect of each session is performed at most once
\* (no staged item is passed to vn.train twice), and a confirm that finds the
\* session already completed is answered AlreadyFinalized.
C1_EffectAtMostOnce ==
    /\ \A o \in Sessions : \A k \in DOMAIN trained[o] : trained[o][k] <= 1
    /\ (last.op = "confirm" /\ last.pre = "completed")
          => last.resp = "AlreadyFinalized"

\* C2: between the read of session.status and the write of the terminal
\* status at most one confirm works on a session, so of the concurrent
\* confirms of one session exactly one is answered success.
C2_ConfirmMutualExclusion ==
    /\ \A t1, t2 \in Threads :
          (t1 # t2 /\ pc[t1] = "confirm_train" /\ pc[t2] = "confirm_train")
             => req[t1].session # req[t2].session
    /\ \A o \in Sessions : confirmOK[o] <= 1

\* C3: a pending session is terminated once: it never happens that a cancel
\* of a pending session is answered success and the session's payload is
\* trained and its confirm answered success too.
C3_TerminatedOnce ==
    \A o \in Sessions :
       ~(/\ cancelPending[o]
         /\ confirmOK[o] >= 1
         /\ \E k \in DOMAIN trained[o] : trained[o][k] >= 1)

\* C4: a cancel that addresses a terminal session is answered
\* AlreadyFinalized: it is not answered success when the session was confirmed,
\* and an id that was staged earlier is not reported as unknown.
C4_CancelOnTerminalFails ==
    last.op = "cancel" =>
       /\ last.pre = "completed" => last.resp = "AlreadyFinalized"
       /\ last.resp = "UnknownSession" => last.sid \notin everStaged

AnswersNeverStaged ==
    /\ nreq' = nreq + 1
    /\ pc' = pc
    /\ last'.op \in {"confirm", "cancel"}
    /\ last'.sid \in SessionIds \ everStaged

\* C6 (as stated): a confirm or cancel on a never-staged id fails with
\* UnknownSession, trains nothing and leaves the session store unchanged.
C6_UnknownIdAsClaimed ==
    [][AnswersNeverStaged =>
          /\ last'.resp = "UnknownSession"
          /\ UNCHANGED <<training_sessions, objs, trained>>]_vars

\* C6 (amended): a cancel on a never-staged id, and a confirm on a never-staged
\* id sent to an initialised service, fail with UnknownSession; a confirm sent
\* before initialisation fails with the not-initialised error; in every case
\* nothing is trained and the session store is unchanged.
C6_UnknownId ==
    [][AnswersNeverStaged =>
          /\ last'.resp = IF last'.op = "confirm" /\ vn = "None"
                          THEN "NotInitialized" ELSE "UnknownSession"
          /\ UNCHANGED <<training_sessions, objs, trained>>]_vars

\* C6 witness: with a session staged, a confirm on another id was answered
\* UnknownSession
C6_Witness ==
    /\ vn = "obj"
    /\ objs # <<>>
    /\ last.op = "confirm"
    /\ last.sid \in SessionIds \ everStaged
    /\ last.resp = "UnknownSession"

\* C7: execute_sql with confirmed = false answers ConfirmationRequired for
\* every text and forwards nothing; a statement is forwarded only when the
\* confirmed flag is true.
C7_UnconfirmedNeverForwarded ==
    out.path = "tool" =>
       /\ ~arg.confirmed =>
             (out.verdict = "ConfirmationRequired" /\ ~out.forwarded)
       /\ out.forwarded => arg.confirmed

\* C7 witness: a well-formed SELECT sent unconfirmed was rejected
C7_Witness ==
    /\ out.path = "tool"
    /\ ~arg.confirmed
    /\ arg.sql = fSelect
    /\ out.verdict = "ConfirmationRequired"

\* what the database makes of a text: leading blanks and -- comments are
\* skipped, the first word names the statement
RECURSIVE SkipLeading(_)
SkipLeading(s) ==
    IF s = <<>> THEN s
    ELSE IF IsSpace(Head(s)) THEN SkipLeading(Tail(s))
    ELSE IF StartsWith(s, kwCOMMENT)
    THEN LET nl == {i \in DOMAIN s : s[i] = "\n"} IN
         IF nl = {} THEN <<>>
         ELSE SkipLeading(SubSeq(s, (CHOOSE i \in nl : \A j \in nl : i <= j) + 1,
                                 Len(s)))
    ELSE s

\* a well-formed statement that is no read-only SELECT: a GRANT (with no LIMIT
\* clause after it), or a SELECT ... INTO, which creates a table
IsWritingStatement(stmt) ==
    LET body == Upper(SkipLeading(stmt)) IN
    \/ StartsWith(body, <<"G", "R", "A", "N", "T">>) /\ ~Contains(body, kwLIMIT)
    \/ StartsWith(body, kwSELECT) /\ Contains(body, <<" ", "I", "N", "T", "O", " ">>)

\* C8: only read-only SELECT statements pass the gate: execute_sql forwards no
\* statement of another kind hidden behind a leading comment and no SELECT
\* that writes.
C8_OnlyReadOnlySelect ==
    (out.path = "tool" /\ out.forwarded) => ~IsWritingStatement(out.stmt)

\* C9: the execute endpoint of the Vanna service, called directly or through
\* the adapter, forwards only what the execute_sql tool would forward, and the
\* tool forwards only what the endpoint accepts.
C9_SameGateOnEveryPath ==
    /\ (out.path \in {"api", "adapter"} /\ out.forwarded)
          => GateVerdict(arg.sql, arg.confirmed).verdict = "Accept"
    /\ (out.path = "tool" /\ out.forwarded)
          => (arg.sql # <<>> /\ arg.confirmed)

Rule2Fails(sql) ==
    LET u == Upper(Strip(sql)) IN
    ~(StartsWith(u, kwSELECT) \/ StartsWith(u, kwCOMMENT))

Rule3Fails(sql) ==
    \E k \in DOMAIN dangerous_keywords : Contains(Upper(sql), dangerous_keywords[k])

\* C10: the rules are applied in the order confirmation, prefix, denylist and
\* the first failing rule is the one reported.
C10_RuleOrder ==
    out.path = "tool" =>
       /\ ~arg.confirmed => out.verdict = "ConfirmationRequired"
       /\ (arg.confirmed /\ Rule2Fails(arg.sql))
             => out.verdict = "NotASelectStatement"
       /\ (arg.confirmed /\ ~Rule2Fails(arg.sql) /\ Rule3Fails(arg.sql))
             => out.verdict = "ForbiddenKeyword"

\* C10 witness: a confirmed text starting with UPDATE, which fails rule 2 and
\* rule 3, was rejected as NotASelectStatement
C10_Witness ==
    /\ out.path = "tool"
    /\ arg.confirmed
    /\ arg.sql = fUpdate
    /\ Rule2Fails(arg.sql) /\ Rule3Fails(arg.sql)
    /\ out.verdict = "NotASelectStatement"

\* C11: a confirmed text that starts with SELECT or with the comment marker is
\* rejected as ForbiddenKeyword exactly when its upper-cased text contains one
\* of the listed tokens as a substring (inside an identifier too), and the
\* token reported is the first of the list, in list order, that occurs.
C11_DenylistSubstring ==
    (out.path = "tool" /\ arg.confirmed /\ ~Rule2Fails(arg.sql)) =>
       LET u == Upper(Strip(arg.sql))
           hits == {k \in DOMAIN dangerous_keywords :
                       Contains(u, dangerous_keywords[k])}
       IN /\ (out.verdict = "ForbiddenKeyword") <=> (hits # {})
          /\ hits # {} =>
                out.keyword =
                   dangerous_keywords[CHOOSE k \in hits : \A j \in hits : k <= j]

\* C11 witness: "SELECT 1 UPDATE DROP", where UPDATE comes first in the text
\* and DROP first in the list, was rejected with DROP reported
C11_Witness ==
    /\ out.path = "tool"
    /\ arg.confirmed
    /\ arg.sql = fSelect \o fUpdateThenDrop
    /\ out.verdict = "ForbiddenKeyword"
    /\ out.keyword = kwDROP

\* the statement has a LIMIT clause: the word LIMIT, in any case, that is not
\* part of a longer identifier
HasLimitClause(stmt) ==
    LET u == Upper(stmt) IN
    \E i \in 0..(Len(u) - Len(kwLIMIT)) :
       /\ SubSeq(u, i + 1, i + Len(kwLIMIT)) = kwLIMIT
       /\ (i = 0 \/ ~IsIdentChar(u[i]))
       /\ (i + Len(kwLIMIT) = Len(u) \/ ~IsIdentChar(u[i + Len(kwLIMIT) + 1]))

\* C12: when execute_sql, called with the default limit, forwards a SELECT
\* statement, the text sent to the database is the caller's statement unchanged
\* if it has a LIMIT clause, and otherwise the statement followed by one
\* default LIMIT clause; a statement without a LIMIT clause is never forwarded
\* without one.
C12_LimitAppended ==
    (/\ out.path = "tool" /\ out.forwarded
     /\ arg.limit = DefaultLimit
     /\ StartsWith(Upper(SkipLeading(arg.sql)), kwSELECT)) =>
       IF HasLimitClause(arg.sql)
       THEN out.stmt = arg.sql
       ELSE /\ out.stmt = RStripSemicolons(arg.sql) \o <<"\n">> \o kwLIMIT
                              \o <<" ">> \o Decimal(DefaultLimit) \o <<";">>
            /\ HasLimitClause(out.stmt)

\* C13: the payload applied by a successful confirm is the payload staged at
\* preview: once a confirm of the id of a sql_example session is answered
\* success, the (question, sql) pair of every sql_example session staged under
\* that id before the confirm, and not cancelled, is in the training store,
\* whatever other sessions were staged in between.
C13_StagedPayloadApplied ==
    (/\ last.op = "confirm" /\ last.resp = "Success"
     /\ objs[last.session].training_type = "sql_example") =>
       \A o \in Sessions :
          (/\ objs[o].session_id = last.sid
           /\ o <= last.session
           /\ cancelOK[o] = 0
           /\ objs[o].training_type = "sql_example")
             => [kind |-> "sql_example", item |-> objs[o].data] \in store

\* a step of a preview handler, and a step of the cancel handler
PreviewStep ==
    nreq' = nreq + 1 /\ pc' = pc /\ last'.op = "preview"

CancelStep ==
    \/ nreq' = nreq + 1 /\ pc' = pc /\ last'.op = "cancel"
    \/ \E t \in Threads : pc[t] # "cancel_del" /\ pc'[t] = "cancel_del"
    \/ \E t \in Threads : pc[t] = "cancel_del" /\ pc'[t] # "cancel_del"

\* a step in which a confirm passes one staged item to vn.train
ConfirmTrainStep ==
    \E t \in Threads :
       /\ pc[t] = "confirm_train" /\ pc'[t] = "confirm_train"
       /\ req'[t].calls = req[t].calls + 1

C15_ExactlyOneAsClaimed ==
    (last.op = "confirm" /\ last.resp = "Success") => last.calls = 1

\* C15 (amended): a successful confirm makes one training call per staged
\* item of its session: exactly one for a documentation or sql_example
\* session, and one per table of ddl_list for a ddl session.
C15_OneCallPerItem ==
    (last.op = "confirm" /\ last.resp = "Success") =>
       LET s == objs[last.session] IN
       last.calls = IF s.training_type = "ddl" THEN Len(s.data) ELSE 1

\* C15 witness: the confirm of a ddl session of two tables was answered
\* success after two training calls
C15_Witness ==
    /\ last.op = "confirm" /\ last.resp = "Success"
    /\ objs[last.session].training_type = "ddl"
    /\ Len(objs[last.session].data) = 2
    /\ last.calls = 2

\* C16: session ids are unique: a preview stores its session under an id that
\* holds no session and that no earlier session has held, so staging never
\* overwrites an entry and an id that was terminated does not hold a pending
\* session again.
C16_FreshIds ==
    [][\A id \in SessionIds :
          (training_sessions'[id] # training_sessions[id]
             /\ training_sessions'[id] # 0)
          => (training_sessions[id] = 0 /\ id \notin everStaged)]_vars

\* C17: detect_query_type is first-match over the order nearby, buffer,
\* intersection, within, area, distance, count: the type returned is that of
\* the earliest entry one of whose patterns matches the lower-cased query, and
\* None when no entry matches.
C17_FirstMatchOrder ==
    /\ [k \in DOMAIN QUERY_PATTERNS |-> QUERY_PATTERNS[k].type]
          = <<"nearby", "buffer", "intersection", "within", "area", "distance",
              "count">>
    /\ nlout.query_type # "none" =>
          LET hits == {k \in DOMAIN QUERY_PATTERNS :
                          PatternsMatch(Lower(nlarg.query), k)}
          IN nlout.query_type =
                IF hits = {} THEN "None"
                ELSE QUERY_PATTERNS[CHOOSE k \in hits :
                                       \A j \in hits : k <= j].type

\* C17 witness: "find within ", which the nearby entry and the within entry
\* both match, was classified as nearby
C17_Witness ==
    /\ nlarg.query = pFind \o pWithin
    /\ PatternsMatch(Lower(nlarg.query), 1)
    /\ PatternsMatch(Lower(nlarg.query), 4)
    /\ nlout.query_type = "nearby"

\* C18: an English proximity phrase whose only cue is "within" followed by a
\* distance, with no find or search verb ("within 500 meters"), is classified
\* as nearby.
C18_WithinDistanceIsNearby ==
    (nlout.query_type # "none" /\ nlarg.query \in {pWithin \o pMeters,
                                                    pWithin \o pKm})
       => nlout.query_type = "nearby"

\* C19: once the table is resolved, nl_to_sql returns SQL for a nearby query
\* exactly when coordinates and a distance were both extracted, and for a
\* buffer query exactly when a distance was extracted; otherwise it returns no
\* SQL and an error that names a slot that was not extracted. A slot that was
\* extracted, whatever its value, is not reported as missing.
C19_RequiredSlots ==
    (/\ nlout.query_type \in {"nearby", "buffer"}
     /\ nlout.error \notin {"MissingTable", "TableNotFound", "ParseFailed"}) =>
       LET c == extract_coordinates(nlarg.query).found
           d == extract_distance(nlarg.query).found
           need_c == nlout.query_type = "nearby"
       IN /\ nlout.success <=> ((need_c => c) /\ d)
          /\ nlout.success => nlout.sql # <<>>
          /\ ~nlout.success =>
                /\ nlout.sql = <<>>
                /\ nlout.error \in {"MissingCoordinates", "MissingDistance"}
          /\ nlout.error = "MissingCoordinates" => (need_c /\ ~c)
          /\ nlout.error = "MissingDistance" => ~d

\* C20: every SQL text the generator produces for an intent whose result set
\* is unbounded (nearby, buffer, area, intersection) contains a LIMIT clause.
C20_GeneratedSqlHasLimit ==
    (nlout.success /\ nlout.query_type \in {"nearby", "buffer", "area",
                                             "intersection"})
       => HasLimitClause(nlout.sql)

\* the seven intents of QUERY_PATTERNS
Intents ==
    {"nearby", "buffer", "intersection", "within", "area", "distance", "count"}

\* the required slots of the intent were extracted with a usable value:
\* coordinates and a distance for nearby, a distance for buffer
SlotsPresent(query_type, query) ==
    LET c == extract_coordinates(query)
        d == extract_distance(query)
    IN /\ query_type = "nearby" => c.found
       /\ query_type \in {"nearby", "buffer"} => (d.found /\ d.value # 0)

\* the call got past table resolution: a table name was found and
\* get_table_info returned its row
TableResolved ==
    /\ nlout.query_type \in Intents
    /\ nlout.error \notin {"MissingTable", "TableNotFound", "ParseFailed"}

\* C21: there is one template per intent: for each of the seven intents, a
\* query classified as that intent, with its required slots present and a
\* resolvable table, makes nl_to_sql succeed and return generated SQL.
C21_TemplatePerIntent ==
    (TableResolved /\ SlotsPresent(nlout.query_type, nlarg.query))
       => (nlout.success /\ nlout.sql # <<>>)

\* the templates name the geometry column as the first argument of
\* ST_Transform
UsesColumn(sql, col) == Contains(sql, <<"(">> \o col \o <<",">>)

\* the geometry column registered for a table, NoColumn when there is none
Registered(t) == IF t \in DOMAIN catalog THEN catalog[t] ELSE NoColumn

\* a call of nl_to_sql that got an answer from the database
LookupStep ==
    /\ catalog' = catalog
    /\ arg' = arg
    /\ out' = out
    /\ nlout'.db_calls = 1
    /\ nlout'.error # "ParseFailed"

\* C22: every call of nl_to_sql that reaches schema resolution looks the
\* table up in the catalog as it is at that call: the SQL it returns names
\* the geometry column registered then and no other, and when none is
\* registered the call fails with the unknown-table error and returns no SQL.
C22_FreshLookup ==
    [][LookupStep =>
         LET col == Registered(nlout'.table_name) IN
         IF col = NoColumn
         THEN /\ ~nlout'.success
              /\ nlout'.error = "TableNotFound"
              /\ nlout'.sql = <<>>
         ELSE /\ nlout'.error # "TableNotFound"
              /\ nlout'.success =>
                    /\ nlout'.geom_column = col
                    /\ \A c \in GeomColumns :
                          UsesColumn(nlout'.sql, c) => c = col
                    /\ nlout'.query_type # "count" =>
                          UsesColumn(nlout'.sql, col)]_vars

\* an earlier call returned SQL on column geom (since submitted), the
\* catalog changed, and the latest call returned SQL on column shape
C22_Witness ==
    /\ UsesColumn(arg.sql, GeomColumn)
    /\ nlout.success
    /\ Registered(nlout.table_name) = ShapeColumn
    /\ UsesColumn(nlout.sql, ShapeColumn)

IsLetter(ch) ==
    \E i \in DOMAIN LowerChars : ch \in {LowerChars[i], UpperChars[i]}

\* the length of the run of letters at offset i
RECURSIVE LetterRun(_, _)
LetterRun(s, i) ==
    IF i < Len(s) /\ IsLetter(s[i + 1]) THEN 1 + LetterRun(s, i + 1) ELSE 0

\* the word of letters that follows the number starting at offset i
WordAfterNumber(s, i) ==
    LET n == DigitRun(s, i)
        f == IF n >= 1 /\ i + n < Len(s) /\ s[i + n + 1] = "."
             THEN DigitRun(s, i + n + 1) ELSE 0
        e == IF f >= 1 THEN i + n + 1 + f ELSE i + n
        w == e + SpaceRun(s, e)
    IN [word |-> SubSeq(s, w + 1, w + LetterRun(s, w)),
        end |-> w + LetterRun(s, w)]

\* the unit words written in letters, singular and plural
UnitWords ==
    {<<"m">>, <<"k", "m">>, <<"m", "e", "t", "e", "r">>,
     <<"m", "e", "t", "e", "r", "s">>,
     <<"k", "i", "l", "o", "m", "e", "t", "e", "r">>,
     <<"k", "i", "l", "o", "m", "e", "t", "e", "r", "s">>}

\* C23: extract_distance takes a distance only from a number followed by a
\* recognised unit: in a call that used a distance read from a number and
\* the word that ends the text, that word is a unit word (a unit written in
\* Chinese is no word of letters); a number followed by any other word is
\* not taken.
C23_OnlyNumberWithUnit ==
    (nlout.success /\ nlout.distance.found) =>
       LET w == WordAfterNumber(nlarg.query, NumberSearch(nlarg.query, 0))
       IN w.end = Len(nlarg.query) => (w.word = <<>> \/ w.word \in UnitWords)

\* the error responses of nl_to_sql and the responses of execute_sql
NlErrors ==
    {"UnknownType", "MissingTable", "ParseFailed", "TableNotFound",
     "MissingCoordinates", "MissingDistance", "NotImplemented"}

ToolVerdicts ==
    {"ConfirmationRequired", "NotASelectStatement", "ForbiddenKeyword",
     "Success", "DbError"}

\* C24: every call of nl_to_sql and of execute_sql ends with a response
\* carrying success; a failure of the database during schema resolution or
\* during the execution of the statement gives success=false with the
\* error of the driver, and the statement is sent at most once.
C24_AlwaysResponds ==
    /\ nlout # NoNlOut =>
          /\ nlout.success <=> nlout.error = "none"
          /\ ~nlout.success => nlout.error \in NlErrors
    /\ nlout.db_failed =>
          /\ ~nlout.success
          /\ nlout.error = "ParseFailed"
          /\ nlout.sql = <<>>
          /\ nlout.db_calls = 1
    /\ out # NoOut => out.verdict \in ToolVerdicts
    /\ out.dbfail # "none" => out.verdict = "DbError"
    /\ out.fetches <= 1

\* schema resolution failed in the database in the last nl_to_sql call, and
\* the statement of the last execute_sql call failed in the database
C24_Witness ==
    /\ nlout.db_failed
    /\ out.dbfail = "fetch"
    /\ out.fetches = 1

\* C25: a confirm whose training call fails is all-or-nothing: the confirm
\* answered with the failure has handed nothing to the training store (none
\* of its vn.train calls has taken effect).
C25_FailedConfirmAllOrNothing ==
    (last.op = "confirm" /\ last.resp \in {"Error", "TrainFailed"})
       => last.calls = 0

\* GET /health: 'initialized': vn is not None
health_initialized == vn # "None"

\* C26: a failed initialisation leaves the service uninitialised: when an
\* init request on an uninitialised service is answered success=false, the
\* health endpoint still reports initialized=false afterwards (and the
\* requests that test vn are still rejected as not initialised).
C26_FailedInitStaysUninitialised ==
    [][(~health_initialized /\ last'.op = "init" /\ last'.resp = "Error"
          /\ last' # last)
         => ~health_initialized']_vars

\* the gate's answer in a response of execute_sql: the rejection, or Accept
\* when the statement went on to the database layer
GateAnswer(o) ==
    IF o.verdict \in {"Success", "DbError"} THEN "Accept" ELSE o.verdict

\* C27: the gate is stateless: the answer of an execute_sql call is the one
\* fixed by its arguments (sql, confirmed), two calls with the same
\* arguments get the same answer whatever calls came between them, and a
\* confirmed statement is accepted although no preview returned it.
C27_GateStateless ==
    [][out'.path = "tool" =>
         /\ GateAnswer(out') = GateVerdict(arg'.sql, arg'.confirmed).verdict
         /\ (out.path = "tool" /\ arg' = arg) => GateAnswer(out') = GateAnswer(out)
         /\ (arg'.confirmed /\ ~Rule2Fails(arg'.sql) /\ ~Rule3Fails(arg'.sql))
               => out'.verdict \in {"Success", "DbError"}]_vars

\* a confirmed statement was accepted and sent on, no preview having been
\* made, after the service and the adapter had been initialised
C27_Witness ==
    /\ out.path = "tool"
    /\ out.forwarded
    /\ arg.confirmed
    /\ nlout = NoNlOut
    /\ adapterInit

\* C28: preview-then-confirm round-trips: the generated_sql of a successful
\* nl_to_sql call, submitted unchanged to execute_sql with confirmed=true,
\* passes the three rules of the gate and goes on to the database layer,
\* whatever the names of the table and of the geometry column.
C28_PreviewThenConfirm ==
    [][(out' # out /\ out'.path = "tool" /\ arg.confirmed)
         => out'.verdict \in {"Success", "DbError"}]_vars

\* FROM schema.table in a template
FromTable(sql, schema, table) ==
    Contains(sql, <<"F", "R", "O", "M", " ">> \o schema \o <<".">> \o table
                     \o <<"\n">>)

\* C29: the table_name argument is used only when the text names no table:
\* in a call of nl_to_sql with a detected intent, a table named in the text
\* is the one resolved in the catalog and named in the SQL, whatever the
\* argument; the argument is used when the text names none; and when there
\* is neither, the call fails without a call to the database.
C29_ExtractedTableFirst ==
    [][(nlout' # nlout /\ nlout'.query_type # "None") =>
         LET e == extract_table_name(nlarg.query)
             t == IF e # <<>> THEN e ELSE nlarg.table_name
         IN /\ nlout'.table_name = t
            /\ t = <<>> => /\ ~nlout'.success
                           /\ nlout'.error = "MissingTable"
                           /\ nlout'.db_calls = 0
            /\ nlout'.success =>
                  /\ nlout'.geom_column = Registered(t)
                  /\ FromTable(nlout'.sql, Public, t)
                  /\ \A o \in CatalogTables \ {t} :
                        ~FromTable(nlout'.sql, Public, o)]_vars

\* the text names table roads, the argument names table parks, whose
\* geometry column is shape; the SQL is on roads and its column geom
C29_Witness ==
    /\ extract_table_name(nlarg.query) = tRoads
    /\ nlarg.table_name = tParks
    /\ Registered(tParks) = ShapeColumn
    /\ nlout.success
    /\ nlout.geom_column = GeomColumn
    /\ FromTable(nlout.sql, Public, tRoads)

\* the session stored under an id: its status and payload, or absent
SessionView(ts, os, k) ==
    IF ts[k] = 0 THEN [status |-> "absent", training_type |-> "none",
                       data |-> <<>>]
    ELSE [status |-> os[ts[k]].status,
          training_type |-> os[ts[k]].training_type, data |-> os[ts[k]].data]

\* a step that ends a confirm or a cancel of session id k
EndsRequestOn(k) ==
    \E t \in Threads :
       /\ pc[t] \in {"confirm_train", "cancel_del"}
       /\ pc'[t] = "idle"
       /\ req[t].sid = k

\* C30: sessions are independent: the status and the payload of an existing
\* session change only in a step of a confirm or a cancel of that session;
\* a confirm or cancel of another session, and a preview, leave them as
\* they are.
C30_SessionsIndependent ==
    [][\A k \in SessionIds :
          (training_sessions[k] # 0
             /\ SessionView(training_sessions', objs', k)
                   # SessionView(training_sessions, objs, k))
            => EndsRequestOn(k)]_vars

====
